---------------------------- MODULE Spec2Model ----------------------------
(***************************************************************************)
(* Budget dashboard (leangel01/dashboard-presupuesto).                     *)
(*                                                                         *)
(* The repository holds six iterations of one React component `App`:       *)
(*   App_1     src/src/App.jsx lines 1-296   (findField, no auth)          *)
(*   App_2     src/src/App.jsx lines 298-596 (auth, no filters)            *)
(*   part_000  src/unnamed/part_000          (auth, no filters)            *)
(*   part_001  src/unnamed/part_001          (raw documents, no error)     *)
(*   part_002  src/unnamed/part_002          (alias-aware findField)       *)
(*   part_003  src/unnamed/part_003          (auth, filters, sorting)      *)
(* A behaviour fixes one iteration (`variant`) and one startup             *)
(* configuration (`config`) and then runs the component: mount, the        *)
(* configuration timer, sign-in, the auth listener, the data effect, the   *)
(* snapshot listener, the user's filter/sort events, teardown, reload.     *)
(*                                                                         *)
(* JavaScript strings are sequences of one-character strings, so that      *)
(* trim / toUpperCase / replace are computed and not assumed.              *)
(***************************************************************************)
EXTENDS Integers, Sequences, FiniteSets, TLC

(***************************************************************************)
(* Bounds of the model.                                                    *)
(***************************************************************************)
\* largest number of documents in one delivered snapshot
MaxDocs == 2
\* largest number of auth-state notifications in one session
MaxAuthEvents == 2

(***************************************************************************)
(* JavaScript strings.                                                     *)
(***************************************************************************)
LowerCase == <<"a","b","c","d","e","f","g","h","i","j","k","l","m",
               "n","o","p","q","r","s","t","u","v","w","x","y","z">>
UpperCase == <<"A","B","C","D","E","F","G","H","I","J","K","L","M",
               "N","O","P","Q","R","S","T","U","V","W","X","Y","Z">>

\* one character of String.prototype.toUpperCase
UpperChar(c) ==
    IF \E i \in 1..26 : LowerCase[i] = c
    THEN UpperCase[CHOOSE i \in 1..26 : LowerCase[i] = c]
    ELSE c

\* String.prototype.toUpperCase
ToUpperCase(s) == [i \in 1..Len(s) |-> UpperChar(s[i])]

\* the characters the regular expression \s (and trim) treats as white space
IsSpace(c) == c \in {" ", "\t", "\n"}

RECURSIVE TrimStart(_)
TrimStart(s) ==
    IF s = <<>> THEN <<>>
    ELSE IF IsSpace(Head(s)) THEN TrimStart(Tail(s)) ELSE s

RECURSIVE TrimEnd(_)
TrimEnd(s) ==
    IF s = <<>> THEN <<>>
    ELSE IF IsSpace(s[Len(s)]) THEN TrimEnd(SubSeq(s, 1, Len(s) - 1)) ELSE s

\* String.prototype.trim
TrimStartOnly(s) == TrimStart(s)
Trim(s) == TrimEnd(TrimStart(s))

\* s.replace(/\s/g, '_')
ReplaceSpaces(s) == [i \in 1..Len(s) |-> IF IsSpace(s[i]) THEN "_" ELSE s[i]]

(***************************************************************************)
(* JavaScript values: numbers (integers here), NaN, strings, null and      *)
(* undefined, all as records of one shape.                                 *)
(***************************************************************************)
Num(n)    == [t |-> "num",   n |-> n, s |-> <<>>]
Str(s)    == [t |-> "str",   n |-> 0, s |-> s]
NaN       == [t |-> "nan",   n |-> 0, s |-> <<>>]
Null      == [t |-> "null",  n |-> 0, s |-> <<>>]
Undefined == [t |-> "undef", n |-> 0, s |-> <<>>]

\* ToBoolean: what `a || b` and `a ? b : c` test
Truthy(v) ==
    CASE v.t = "num" -> v.n # 0
      [] v.t = "str" -> v.s # <<>>
      [] OTHER       -> FALSE

\* a || b
Or(a, b) == IF Truthy(a) THEN a ELSE b

Digits == <<"0","1","2","3","4","5","6","7","8","9">>
IsDigit(c) == \E i \in 1..10 : Digits[i] = c
DigitVal(c) == (CHOOSE i \in 1..10 : Digits[i] = c) - 1

RECURSIVE DigitsValue(_)
DigitsValue(s) ==
    IF s = <<>> THEN 0
    ELSE 10 * DigitsValue(SubSeq(s, 1, Len(s) - 1)) + DigitVal(s[Len(s)])

AllDigits(s) == s # <<>> /\ \A i \in 1..Len(s) : IsDigit(s[i])

\* StringToNumber on the literals of the model: optional white space, an
\* optional sign and decimal digits; the empty string is 0; the rest is NaN
StringToNumber(s) ==
    LET t == Trim(s) IN
    IF t = <<>> THEN Num(0)
    ELSE IF AllDigits(t) THEN Num(DigitsValue(t))
    ELSE IF Head(t) = "-" /\ AllDigits(Tail(t)) THEN Num(0 - DigitsValue(Tail(t)))
    ELSE IF Head(t) = "+" /\ AllDigits(Tail(t)) THEN Num(DigitsValue(Tail(t)))
    ELSE NaN

\* Number(v)
JSNumber(v) ==
    CASE v.t = "num"   -> v
      [] v.t = "nan"   -> NaN
      [] v.t = "str"   -> StringToNumber(v.s)
      [] v.t = "null"  -> Num(0)
      [] OTHER         -> NaN

\* Number(v) || 0, the amount stored in a cached record
NumberOrOne(v) == Or(JSNumber(v), Num(1)).n
NumberOrZero(v) == Or(JSNumber(v), Num(0)).n

(***************************************************************************)
(* String literals of the sources.                                         *)
(***************************************************************************)
K_DESC_RAMO      == <<"D","E","S","C","_","R","A","M","O">>
K_DESC_UR        == <<"D","E","S","C","_","U","R">>
K_MONTO_APROBADO == <<"M","O","N","T","O","_","A","P","R","O","B","A","D","O">>
K_MONTO_PAGADO   == <<"M","O","N","T","O","_","P","A","G","A","D","O">>
K_RAMO           == <<"R","A","M","O">>
K_APROBADO       == <<"A","P","R","O","B","A","D","O">>
K_PAGADO         == <<"P","A","G","A","D","O">>
\* part_001 reads the amounts under keys that start with a blank
K_SP_MONTO_APROBADO == <<" ">> \o K_MONTO_APROBADO
K_SP_MONTO_PAGADO   == <<" ">> \o K_MONTO_PAGADO

S_SinClasificar   == <<"S","i","n"," ","c","l","a","s","i","f","i","c","a","r">>
S_SinClasificarUC == <<"S","i","n"," ","C","l","a","s","i","f","i","c","a","r">>
S_SinNombre       == <<"S","i","n"," ","N","o","m","b","r","e">>
S_Otros           == <<"O","t","r","o","s">>
S_NA              == <<"N","/","A">>
S_all             == <<"a","l","l">>


(***************************************************************************)
(* Raw documents of the store: an id and an ordered, string-keyed field    *)
(* map.  DocPool is the set of documents the store may hold: D3 spells its *)
(* keys in lower case and with blanks and has no institution.              *)
(***************************************************************************)
Field(k, v) == [k |-> k, v |-> v]

D1 == [id |-> "d1",
       fields |-> << Field(K_DESC_RAMO, Str(<<"A">>)), Field(K_DESC_UR, Str(<<"X">>)),
                     Field(K_MONTO_APROBADO, Num(200)), Field(K_MONTO_PAGADO, Num(150)) >>]
D2 == [id |-> "d2",
       fields |-> << Field(K_DESC_RAMO, Str(<<"B">>)), Field(K_DESC_UR, Str(<<"Y">>)),
                     Field(K_MONTO_APROBADO, Num(3)), Field(K_MONTO_PAGADO, Num(1)) >>]
D3 == [id |-> "d3",
       fields |-> << Field(<<"d","e","s","c","_","r","a","m","o"," ">>, Str(<<"A">>)),
                     Field(K_SP_MONTO_APROBADO, Str(<<"2","0","0">>)),
                     Field(K_MONTO_PAGADO, Num(150)) >>]

DocPool == {D1, D2, D3}

\* document ids in the store's order
DocIds == <<"d1", "d2", "d3">>
IdIndex(id) == CHOOSE i \in 1..Len(DocIds) : DocIds[i] = id

\* the snapshots the store can deliver: documents with pairwise distinct ids,
\* in ascending order of id (the order of a collection query that states none)
Snapshots ==
    UNION { { s \in [1..n -> DocPool] :
                \A i, j \in 1..n : i < j => IdIndex(s[i].id) < IdIndex(s[j].id) }
            : n \in 0..MaxDocs }

(***************************************************************************)
(* A larger collection, for the aggregation: more ramos than the Top-N     *)
(* list holds, ties between ramos, ramos that are array indices or names   *)
(* of Object.prototype, amounts that are null, absent or not numeric, and  *)
(* one document (w05) that repeats w03 under other key spellings.          *)
(***************************************************************************)
\* number of documents of the larger collection
MaxWide == 13

WideFields(ramo, ur, aprobado, pagado) ==
    << Field(K_DESC_RAMO, Str(ramo)), Field(K_DESC_UR, Str(ur)),
       Field(K_MONTO_APROBADO, aprobado), Field(K_MONTO_PAGADO, pagado) >>

WideStore ==
    << [id |-> "w01", fields |-> WideFields(<<"7">>, <<"X">>, Num(50), Num(20))],
       [id |-> "w02", fields |-> WideFields(<<"3">>, <<"X">>, Num(50), Num(10))],
       [id |-> "w03", fields |-> WideFields(<<"A">>, <<"X">>, Num(100), Num(50))],
       [id |-> "w04", fields |-> WideFields(<<"A">>, <<"Y">>, Str(<<"a","b","c">>), Num(50))],
       [id |-> "w05",
        fields |-> << Field(<<"d","e","s","c","_","r","a","m","o"," ">>, Str(<<"A">>)),
                      Field(<<" ","D","e","s","c","_","U","r">>, Str(<<"X">>)),
                      Field(K_MONTO_APROBADO, Num(100)),
                      Field(K_SP_MONTO_PAGADO, Num(50)) >>],
       [id |-> "w06", fields |-> WideFields(<<"B">>, <<"X">>, Num(10), Null)],
       [id |-> "w07", fields |-> WideFields(<<"B">>, <<"Y">>, Null, Num(30))],
       [id |-> "w08",
        fields |-> << Field(K_DESC_RAMO, Str(<<"C">>)), Field(K_DESC_UR, Str(<<"Y">>)),
                      Field(K_MONTO_APROBADO, Num(5)) >>],
       [id |-> "w09", fields |-> WideFields(<<"D">>, <<"X">>, Num(20), Str(<<"a","b","c">>))],
       [id |-> "w10",
        fields |-> << Field(K_DESC_RAMO, Str(<<"E">>)),
                      Field(K_MONTO_PAGADO, Str(<<"1","2">>)) >>],
       [id |-> "w11",
        fields |-> WideFields(<<"c","o","n","s","t","r","u","c","t","o","r">>, <<"X">>,
                              Num(40), Num(10))],
       [id |-> "w12", fields |-> WideFields(<<"F">>, <<"Y">>, Num(30), Num(30))],
       [id |-> "w13", fields |-> WideFields(<<"G">>, <<"X">>, Num(60), Num(60))],
       [id |-> "w14", fields |-> WideFields(<<"H">>, <<"Y">>, Num(8), Num(8))] >>

\* the snapshots of the larger collection: its first k documents, as the
\* collection is filled or emptied
WideSnapshots == { SubSeq(WideStore, 1, k) : k \in 0..MaxWide }

(***************************************************************************)
(* Documents for the normalizer: keys spelled with blanks where the        *)
(* canonical name has an underscore, amounts below zero, documents without *)
(* ramo or institution, and documents that carry a field and its alias.    *)
(***************************************************************************)
\* largest number of documents in one snapshot of these
MaxKeyDocs == 2

KeyPool ==
    << [id |-> "k1", fields |-> WideFields(<<"A">>, <<"X">>, Num(100), Num(40))],
       [id |-> "k2",
        fields |-> << Field(<<"D","e","s","c"," ","R","a","m","o">>, Str(<<"A">>)),
                      Field(<<"d","e","s","c"," ","u","r">>, Str(<<"X">>)),
                      Field(<<"M","o","n","t","o"," ","A","p","r","o","b","a","d","o">>,
                            Num(100)),
                      Field(<<" ","m","o","n","t","o"," ","p","a","g","a","d","o"," ">>,
                            Num(40)) >>],
       [id |-> "k3",
        fields |-> WideFields(<<"B">>, <<"Y">>, Num(0 - 5), Str(<<"-","7">>)) \o
                   << Field(K_SP_MONTO_APROBADO, Num(0 - 5)),
                      Field(K_SP_MONTO_PAGADO, Num(0 - 7)) >>],
       [id |-> "k4",
        fields |-> << Field(K_MONTO_APROBADO, Num(10)), Field(K_MONTO_PAGADO, Num(10)) >>],
       [id |-> "k5",
        fields |-> WideFields(<<"C">>, <<"X">>, Num(0), Str(<<"a","b","c">>)) \o
                   << Field(K_RAMO, Str(<<"Z">>)),
                      Field(K_APROBADO, Num(500)), Field(K_PAGADO, Num(9)) >>],
       [id |-> "k6",
        fields |-> WideFields(<<"D">>, <<"Y">>, Num(30), Num(20)) \o
                   << Field(K_RAMO, Str(<<"Z">>)),
                      Field(K_APROBADO, Num(500)), Field(K_PAGADO, Num(9)) >>] >>

\* the snapshots of these documents: up to MaxKeyDocs of them, in the
\* store's order
KeySnapshots ==
    UNION { { [i \in 1..n |-> KeyPool[f[i]]] :
                f \in { g \in [1..n -> 1..Len(KeyPool)] :
                          \A i, j \in 1..n : i < j => g[i] < g[j] } }
            : n \in 0..MaxKeyDocs }

(***************************************************************************)
(* Field lookup.                                                           *)
(***************************************************************************)
\* d.KEY : the value stored under exactly that key, or undefined
Prop(fields, key) ==
    IF \E i \in 1..Len(fields) : fields[i].k = key
    THEN fields[CHOOSE i \in 1..Len(fields) :
                  /\ fields[i].k = key
                  /\ \A j \in 1..(i - 1) : fields[j].k # key].v
    ELSE Undefined

\* Object.keys(raw).find(pred): index of the first matching key, 0 if none
FirstKey(fields, Match(_)) ==
    IF \E i \in 1..Len(fields) : Match(fields[i].k)
    THEN CHOOSE i \in 1..Len(fields) :
            /\ Match(fields[i].k)
            /\ \A j \in 1..(i - 1) : ~Match(fields[j].k)
    ELSE 0

\* findField of App_1: k.trim().toUpperCase() === target.toUpperCase();
\* `key ? raw[key] : null` (an empty key is falsy)
FindFieldTrim(fields, target) ==
    LET Match(k) == ToUpperCase(Trim(k)) = ToUpperCase(target)
        i == FirstKey(fields, Match)
    IN IF i = 0 \/ fields[i].k = <<>> THEN Null ELSE fields[i].v

\* findField of part_002: k.trim().replace(/\s/g, '_').toUpperCase()
FindFieldAlias(fields, target) ==
    LET Match(k) == ToUpperCase(ReplaceSpaces(Trim(k))) = ToUpperCase(target)
        i == FirstKey(fields, Match)
    IN IF i = 0 \/ fields[i].k = <<>> THEN Null ELSE fields[i].v

(***************************************************************************)
(* Execution rate.  A ratio is kept exact, as numerator and denominator;   *)
(* toFixed(1) yields a number of tenths.                                   *)
(***************************************************************************)
Abs(x) == IF x < 0 THEN 0 - x ELSE x

\* avance: aprobado > 0 ? (pagado / aprobado) * 100 : 0   (exact ratio n/d)
AvanceNoGuard(aprobado, pagado) == [n |-> pagado * 100, d |-> aprobado]
Avance(aprobado, pagado) ==
    IF aprobado > 0 THEN [n |-> pagado * 100, d |-> aprobado]
    ELSE [n |-> 0, d |-> 1]

\* ((num / den) * 100).toFixed(1) for den > 0, in tenths: the nearest tenth,
\* a tie going away from zero
ToFixed1(num, den) ==
    LET mag == (2 * 1000 * Abs(num) + den) \div (2 * den)
    IN IF num < 0 THEN 0 - mag ELSE mag

(***************************************************************************)
(* The record cached for one document, per iteration.                      *)
(***************************************************************************)
\* App_1 lines 67-80
NormalizeApp1(doc) ==
    [id        |-> doc.id,
     DESC_RAMO |-> Or(FindFieldTrim(doc.fields, K_DESC_RAMO), Str(S_SinClasificarUC)),
     aprobado  |-> NumberOrZero(FindFieldTrim(doc.fields, K_MONTO_APROBADO)),
     pagado    |-> NumberOrZero(FindFieldTrim(doc.fields, K_MONTO_PAGADO))]

\* App_2 lines 405-411, part_000 lines 96-102
NormalizeAuth(doc) ==
    [id       |-> doc.id,
     ramo     |-> Or(Prop(doc.fields, K_DESC_RAMO), Str(S_SinClasificar)),
     aprobado |-> NumberOrZero(Prop(doc.fields, K_MONTO_APROBADO)),
     pagado   |-> NumberOrZero(Prop(doc.fields, K_MONTO_PAGADO)),
     ur       |-> Or(Prop(doc.fields, K_DESC_UR), Str(S_NA))]

\* part_001 lines 46-49: { id: doc.id, ...doc.data() } (no document of the
\* pool has a field named "id")
NormalizeRaw(doc) == [id |-> doc.id, fields |-> doc.fields]

\* part_002 lines 75-89
NormalizeAlias(doc) ==
    [id        |-> doc.id,
     DESC_RAMO |-> Or(Or(FindFieldAlias(doc.fields, K_DESC_RAMO),
                         FindFieldAlias(doc.fields, K_RAMO)), Str(S_SinNombre)),
     aprobado  |-> Or(Or(JSNumber(FindFieldAlias(doc.fields, K_MONTO_APROBADO)),
                         JSNumber(FindFieldAlias(doc.fields, K_APROBADO))), Num(0)).n,
     pagado    |-> Or(Or(JSNumber(FindFieldAlias(doc.fields, K_MONTO_PAGADO)),
                         JSNumber(FindFieldAlias(doc.fields, K_PAGADO))), Num(0)).n]

\* part_003 lines 103-115
NormalizeFull(doc) ==
    LET aprobado == NumberOrZero(Prop(doc.fields, K_MONTO_APROBADO))
        pagado   == NumberOrZero(Prop(doc.fields, K_MONTO_PAGADO))
    IN [id       |-> doc.id,
        ramo     |-> Or(Prop(doc.fields, K_DESC_RAMO), Str(S_SinClasificar)),
        aprobado |-> aprobado,
        pagado   |-> pagado,
        avance   |-> Avance(aprobado, pagado),
        ur       |-> Or(Prop(doc.fields, K_DESC_UR), Str(S_NA))]

NormalizeDoc(v, doc) ==
    CASE v = "App_1"              -> NormalizeApp1(doc)
      [] v \in {"App_2", "part_000"} -> NormalizeAuth(doc)
      [] v = "part_001"           -> NormalizeRaw(doc)
      [] v = "part_002"           -> NormalizeAlias(doc)
      [] v = "part_003"           -> NormalizeFull(doc)

\* snapshot.docs.map(...)
MapDocs(v, docs) == [i \in 1..Len(docs) |-> NormalizeDoc(v, docs[i])]


(***************************************************************************)
(* State.                                                                  *)
(***************************************************************************)
VARIABLES
    variant,        \* which iteration of App runs
    config,         \* the startup configuration: "valid", "absent", "malformed"
    db,             \* module-level Firestore handle is set
    auth,           \* module-level Auth handle is set
    phase,          \* "constructed" (rendered, effects not yet run), "mounted", "torn"
    data,           \* useState([])            the record cache
    loading,        \* useState(true)
    error,          \* useState(null)          "none" or the kind of message
    user,           \* useState(null)
    selectedRamo,   \* useState('all')
    selectedUR,     \* useState('all')
    sortConfig,     \* useState({ key: 'ramo', direction: 'asc' })
    rawDoc,         \* useState(null)          part_002's sample document
    debugStatus,    \* debugInfo.status
    timer,          \* the configuration setTimeout is pending
    signIn,         \* performAuth's promise: "idle", "pending", "ok", "failed"
    probe,          \* part_002's getDocs promise: "idle", "pending", "done"
    authListener,   \* onAuthStateChanged is registered
    effectUser,     \* the value of `user` the data effect last ran with
    dataListeners,  \* number of onSnapshot listeners registered and not released
    streamLive,     \* the current listener can still deliver (no error yet)
    authEvents,     \* auth-state notifications delivered so far
    subscribeCalls, \* calls of onSnapshot so far in this session
    lastDocs,       \* the documents of the snapshot delivered last
    views           \* the derived values of the last render (memoized or not)

vars == << variant, config, db, auth, phase, data, loading, error, user,
           selectedRamo, selectedUR, sortConfig, rawDoc, debugStatus, timer,
           signIn, probe, authListener, effectUser, dataListeners, streamLive,
           authEvents, subscribeCalls, lastDocs, views >>

Variants == {"App_1", "App_2", "part_000", "part_001", "part_002", "part_003"}
Configs  == {"valid", "absent", "malformed"}
NoUser   == "null"
Users    == {"u1", "u2"}
NoDoc    == << >>
SortKeys == {"ramo", "aprobado", "pagado", "avance"}

\* iterations that sign in and wait for a user before subscribing
HasAuth(v) == v \in {"App_2", "part_000", "part_003"}
\* iterations that keep an error message in state (part_001 has none)
HasErrorState(v) == v # "part_001"
\* iterations that keep debugInfo
HasDebugInfo(v) == v \in {"App_1", "part_002"}

(***************************************************************************)
(* What render returns.                                                    *)
(***************************************************************************)
Screen ==
    CASE variant \in {"App_1", "part_002"} ->
            \* if (loading) spinner; if (error || data.length === 0) diagnostic
            IF loading THEN "spinner"
            ELSE IF error # "none" \/ Len(data) = 0 THEN "errorView"
            ELSE "dashboard"
      [] variant = "part_001" ->
            IF loading THEN "spinner" ELSE "dashboard"
      [] variant \in {"App_2", "part_000"} ->
            \* if (loading) spinner; {error ? panel : dashboard}
            IF loading THEN "spinner"
            ELSE IF error # "none" THEN "errorView" ELSE "dashboard"
      [] variant = "part_003" ->
            \* if (loading && !error) spinner; {error ? panel : dashboard}
            IF loading /\ error = "none" THEN "spinner"
            ELSE IF error # "none" THEN "errorView" ELSE "dashboard"

(***************************************************************************)
(* Derived values of part_003 (useMemo).                                   *)
(***************************************************************************)
\* the option value of a ramo / ur: string values as they are
OptionText(v) == v.s

RECURSIVE SumOver(_, _)
SumOver(recs, fld) ==
    IF recs = << >> THEN 0 ELSE recs[1][fld] + SumOver(Tail(recs), fld)

\* data.filter(d => matchRamo && matchUR)
MatchFilterRamoOnly(d, ramo, ur) == ramo = S_all \/ d.ramo = Str(ramo)
MatchFilter(d, ramo, ur) ==
    /\ (ramo = S_all \/ d.ramo = Str(ramo))
    /\ (ur = S_all \/ d.ur = Str(ur))

Filtered(recs, ramo, ur) == SelectSeq(recs, LAMBDA d : MatchFilter(d, ramo, ur))

\* uniqueRamos / uniqueURs: the values offered by the two selectors
UniqueRamos(recs) == {S_all} \cup { OptionText(recs[i].ramo) : i \in 1..Len(recs) }
UniqueURs(recs, ramo) ==
    {S_all} \cup { OptionText(recs[i].ur) :
                     i \in { j \in 1..Len(recs) : ramo = S_all \/ recs[j].ramo = Str(ramo) } }

\* analytics.totalAprobado, totalPagado, porcentaje (in tenths)
TotalAprobado == SumOver(Filtered(data, selectedRamo, selectedUR), "aprobado")
TotalPagado   == SumOver(Filtered(data, selectedRamo, selectedUR), "pagado")
Porcentaje ==
    IF TotalAprobado > 0 THEN ToFixed1(TotalPagado, TotalAprobado) ELSE 0


(***************************************************************************)
(* Ordering of values: the `<` of the sort comparator.                     *)
(***************************************************************************)
\* the characters of the model in the order of their UTF-16 code units
CodeOrder == <<" ", "+", "-", "/",
               "0","1","2","3","4","5","6","7","8","9",
               "A","B","C","D","E","F","G","H","I","J","K","L","M",
               "N","O","P","Q","R","S","T","U","V","W","X","Y","Z",
               "_",
               "a","b","c","d","e","f","g","h","i","j","k","l","m",
               "n","o","p","q","r","s","t","u","v","w","x","y","z">>
CharCode(c) ==
    IF \E i \in 1..Len(CodeOrder) : CodeOrder[i] = c
    THEN CHOOSE i \in 1..Len(CodeOrder) : CodeOrder[i] = c
    ELSE 0

\* a < b on two strings: by code units, a proper prefix first
RECURSIVE StrLess(_, _)
StrLess(a, b) ==
    IF b = <<>> THEN FALSE
    ELSE IF a = <<>> THEN TRUE
    ELSE IF Head(a) = Head(b) THEN StrLess(Tail(a), Tail(b))
    ELSE CharCode(Head(a)) < CharCode(Head(b))

\* a < b on two values: two strings as strings, otherwise as numbers, and
\* false as soon as one side is NaN
JSLess(a, b) ==
    IF a.t = "str" /\ b.t = "str" THEN StrLess(a.s, b.s)
    ELSE LET x == JSNumber(a)
             y == JSNumber(b)
         IN x.t = "num" /\ y.t = "num" /\ x.n < y.n

\* a[key] < b[key] for the sortable columns of the table
FieldLess(key, a, b) ==
    CASE key = "ramo"     -> JSLess(a.ramo, b.ramo)
      [] key = "aprobado" -> a.aprobado < b.aprobado
      [] key = "pagado"   -> a.pagado < b.pagado
      [] key = "avance"   -> a.avance.n * b.avance.d < b.avance.n * a.avance.d

\* the comparator of result.sort(...): negative, zero or positive
CompareRowsIgnoresDirection(cfg, a, b) ==
    IF FieldLess(cfg.key, a, b) THEN 1
    ELSE IF FieldLess(cfg.key, b, a) THEN 0 - 1
    ELSE 0
CompareRows(cfg, a, b) ==
    IF FieldLess(cfg.key, a, b) THEN (IF cfg.direction = "asc" THEN 0 - 1 ELSE 1)
    ELSE IF FieldLess(cfg.key, b, a) THEN (IF cfg.direction = "asc" THEN 1 ELSE 0 - 1)
    ELSE 0

\* Array.prototype.sort is stable: the element at index i lands behind every
\* element the comparator puts before it and behind every earlier element
\* the comparator ties with it
SortRows(recs, cfg) ==
    LET n == Len(recs)
        Before(j, i) ==
            \/ CompareRows(cfg, recs[j], recs[i]) < 0
            \/ (CompareRows(cfg, recs[j], recs[i]) = 0 /\ j < i)
        rank == [i \in 1..n |-> 1 + Cardinality({ j \in 1..n : Before(j, i) })]
    IN IF cfg.key = "" THEN recs
       ELSE [p \in 1..n |-> recs[CHOOSE i \in 1..n : rank[i] = p]]

\* filteredAndSortedData
FilteredAndSorted(recs, ramo, ur, cfg) == SortRows(Filtered(recs, ramo, ur), cfg)

(***************************************************************************)
(* Grouping by ramo and the Top-N list.                                    *)
(***************************************************************************)
\* .slice(0, 8) of part_003, part_000, part_002 and both components of App.jsx
TopN == 8
\* .slice(0, 5) of part_001
TopNRaw == 5

\* what the reducers read from one cached record: the ramo and two amounts
GroupInput(v, rec) ==
    CASE v = "part_001" ->
            [name     |-> Or(Prop(rec.fields, K_DESC_RAMO), Str(S_Otros)),
             aprobado |-> NumberOrZero(Prop(rec.fields, K_SP_MONTO_APROBADO)),
             pagado   |-> NumberOrZero(Prop(rec.fields, K_SP_MONTO_PAGADO))]
      [] v \in {"App_1", "part_002"} ->
            [name |-> rec.DESC_RAMO, aprobado |-> rec.aprobado, pagado |-> rec.pagado]
      [] OTHER ->
            [name |-> rec.ramo, aprobado |-> rec.aprobado, pagado |-> rec.pagado]

GroupInputs(v, recs) == [i \in 1..Len(recs) |-> GroupInput(v, recs[i])]

\* reduce(..., []) with acc.find(item => item.name === ramo): an array of
\* groups in the order their ramo was first seen
RECURSIVE GroupArray(_, _)
GroupArray(acc, ins) ==
    IF ins = << >> THEN acc
    ELSE LET cur == Head(ins)
             hit == { i \in 1..Len(acc) : acc[i].name = cur.name }
         IN IF hit # {}
            THEN LET i == CHOOSE k \in hit : \A m \in hit : k <= m
                 IN GroupArray([acc EXCEPT ![i].aprobado = @ + cur.aprobado,
                                           ![i].pagado = @ + cur.pagado],
                               Tail(ins))
            ELSE GroupArray(Append(acc, cur), Tail(ins))

RECURSIVE NatToString(_)
NatToString(n) ==
    IF n < 10 THEN << Digits[n + 1] >>
    ELSE NatToString(n \div 10) \o << Digits[(n % 10) + 1] >>

\* the property key a value is converted to in acc[clave]
KeyOf(v) ==
    CASE v.t = "str" -> v.s
      [] v.t = "num" -> IF v.n < 0 THEN <<"-">> \o NatToString(0 - v.n)
                        ELSE NatToString(v.n)
      [] v.t = "nan" -> <<"N","a","N">>
      [] v.t = "null" -> <<"n","u","l","l">>
      [] OTHER -> <<"u","n","d","e","f","i","n","e","d">>

\* names every object literal inherits from Object.prototype: acc[name] is
\* truthy for them although acc has no such property of its own
InheritedKeys ==
    { <<"c","o","n","s","t","r","u","c","t","o","r">>,
      <<"t","o","S","t","r","i","n","g">>,
      <<"v","a","l","u","e","O","f">>,
      <<"_","_","p","r","o","t","o","_","_">> }

\* reduce(..., {}) of the analytics: own properties in insertion order; for
\* an inherited name `!acc[clave]` is false, no property is created and the
\* two += land on the inherited object
RECURSIVE GroupObject(_, _)
GroupObject(acc, ins) ==
    IF ins = << >> THEN acc
    ELSE LET cur == Head(ins)
             key == KeyOf(cur.name)
             hit == { i \in 1..Len(acc) : acc[i].key = key }
         IN IF hit # {}
            THEN LET i == CHOOSE k \in hit : TRUE
                 IN GroupObject([acc EXCEPT ![i].aprobado = @ + cur.aprobado,
                                            ![i].pagado = @ + cur.pagado],
                                Tail(ins))
            ELSE IF key \in InheritedKeys
            THEN GroupObject(acc, Tail(ins))
            ELSE GroupObject(Append(acc, [key |-> key, name |-> cur.name,
                                          aprobado |-> cur.aprobado,
                                          pagado |-> cur.pagado]),
                             Tail(ins))

\* a property key that is an array index: such keys are enumerated first, in
\* ascending numeric order, before the other keys in insertion order
IsIndexKey(k) ==
    /\ AllDigits(k)
    /\ (Len(k) = 1 \/ Head(k) # "0")
    /\ Len(k) <= 9

\* Object.values(agrupado)
ObjectValues(acc) ==
    LET n == Len(acc)
        Before(j, i) ==
            IF IsIndexKey(acc[j].key)
            THEN ~IsIndexKey(acc[i].key)
                 \/ DigitsValue(acc[j].key) < DigitsValue(acc[i].key)
            ELSE ~IsIndexKey(acc[i].key) /\ j < i
        rank == [i \in 1..n |-> 1 + Cardinality({ j \in 1..n : Before(j, i) })]
    IN [p \in 1..n |->
          LET g == acc[CHOOSE i \in 1..n : rank[i] = p]
          IN [name |-> g.name, aprobado |-> g.aprobado, pagado |-> g.pagado]]

\* the groups of a variant before they are ordered
Grouped(v, ins) ==
    IF v \in {"App_1", "part_001", "part_002"}
    THEN GroupArray(<< >>, ins)
    ELSE ObjectValues(GroupObject(<< >>, ins))

\* .sort((a, b) => b.aprobado - a.aprobado), a stable sort
SortGroups(groups) ==
    LET n == Len(groups)
        Before(j, i) ==
            \/ groups[j].aprobado > groups[i].aprobado
            \/ (groups[j].aprobado = groups[i].aprobado /\ j < i)
        rank == [i \in 1..n |-> 1 + Cardinality({ j \in 1..n : Before(j, i) })]
    IN [p \in 1..n |-> groups[CHOOSE i \in 1..n : rank[i] = p]]

\* .slice(0, n)
Slice(s, n) == SubSeq(s, 1, IF Len(s) < n THEN Len(s) ELSE n)

SliceLimit(v) == IF v = "part_001" THEN TopNRaw ELSE TopN

\* topRamos / chartData
TopRamos(v, ins) == Slice(SortGroups(Grouped(v, ins)), SliceLimit(v))

\* ((num / den) * 100).toFixed(2) of part_001, in hundredths
ToFixed2(num, den) ==
    LET mag == (2 * 10000 * Abs(num) + den) \div (2 * den)
    IN IF num < 0 THEN 0 - mag ELSE mag

\* porcentaje / executionRate: tenths of a percent; hundredths in part_001
RateOf(v, aprobado, pagado) ==
    IF aprobado > 0
    THEN (IF v = "part_001" THEN ToFixed2(pagado, aprobado) ELSE ToFixed1(pagado, aprobado))
    ELSE 0

(***************************************************************************)
(* What a render computes.  part_003 keeps its derived values in useMemo   *)
(* (uniqueRamos [data], uniqueURs [data, selectedRamo],                    *)
(* filteredAndSortedData [data, selectedRamo, selectedUR, sortConfig],     *)
(* analytics [filteredAndSortedData]); App_2 and part_000 keep analytics   *)
(* [data]; the other iterations compute everything on every render.        *)
(***************************************************************************)
\* analytics / the global calculations: totals, rate and Top-N list of the
\* records handed to the reducers
AnalyticsOfTop(v, ins) ==
    [totalAprobado |-> SumOver(TopRamos(v, ins), "aprobado"),
     totalPagado   |-> SumOver(TopRamos(v, ins), "pagado"),
     rate          |-> RateOf(v, SumOver(TopRamos(v, ins), "aprobado"),
                              SumOver(TopRamos(v, ins), "pagado")),
     top           |-> TopRamos(v, ins)]
Analytics(v, ins) ==
    [totalAprobado |-> SumOver(ins, "aprobado"),
     totalPagado   |-> SumOver(ins, "pagado"),
     rate          |-> RateOf(v, SumOver(ins, "aprobado"), SumOver(ins, "pagado")),
     top           |-> TopRamos(v, ins)]

\* part_003: the four memoized values for given rows
FilterViews(d, r, u, s, rows) ==
    [ramos     |-> UniqueRamos(d),
     urs       |-> UniqueURs(d, r),
     rows      |-> rows,
     analytics |-> Analytics("part_003", GroupInputs("part_003", rows)),
     depRamo   |-> r,
     depUR     |-> u,
     depSort   |-> s]

\* the other iterations: no filters, no table of sorted rows
PlainViews(v, d, r, u, s) ==
    [ramos     |-> {},
     urs       |-> {},
     rows      |-> << >>,
     analytics |-> Analytics(v, GroupInputs(v, d)),
     depRamo   |-> r,
     depUR     |-> u,
     depSort   |-> s]

\* every derived value, computed from the current cache, filters and sort
ViewsOf(v, d, r, u, s) ==
    IF v = "part_003"
    THEN FilterViews(d, r, u, s, FilteredAndSorted(d, r, u, s))
    ELSE PlainViews(v, d, r, u, s)

\* part_003: a memoized value is computed again only if one of its
\* dependencies differs from the previous render's (setData always stores a
\* new array, setSortConfig a new object; analytics depends on the rows)
MemoIgnoresSort(old, fresh, dataChanged) ==
    [ramos     |-> IF dataChanged THEN fresh.ramos ELSE old.ramos,
     urs       |-> IF dataChanged \/ fresh.depRamo # old.depRamo
                   THEN fresh.urs ELSE old.urs,
     rows      |-> IF dataChanged \/ fresh.depRamo # old.depRamo
                      \/ fresh.depUR # old.depUR
                   THEN fresh.rows ELSE old.rows,
     analytics |-> IF dataChanged \/ fresh.depRamo # old.depRamo
                      \/ fresh.depUR # old.depUR
                   THEN fresh.analytics ELSE old.analytics,
     depRamo   |-> fresh.depRamo,
     depUR     |-> fresh.depUR,
     depSort   |-> fresh.depSort]
Memo(old, fresh, dataChanged) ==
    [ramos     |-> IF dataChanged THEN fresh.ramos ELSE old.ramos,
     urs       |-> IF dataChanged \/ fresh.depRamo # old.depRamo
                   THEN fresh.urs ELSE old.urs,
     rows      |-> IF dataChanged \/ fresh.depRamo # old.depRamo
                      \/ fresh.depUR # old.depUR \/ fresh.depSort # old.depSort
                   THEN fresh.rows ELSE old.rows,
     analytics |-> IF dataChanged \/ fresh.depRamo # old.depRamo
                      \/ fresh.depUR # old.depUR \/ fresh.depSort # old.depSort
                   THEN fresh.analytics ELSE old.analytics,
     depRamo   |-> fresh.depRamo,
     depUR     |-> fresh.depUR,
     depSort   |-> fresh.depSort]

\* one render.  App_2 and part_000 memoize analytics on [data]; App_1,
\* part_001 and part_002 compute their values on every render
Render(old, v, d, r, u, s, dataChanged) ==
    IF v = "part_003" THEN Memo(old, ViewsOf(v, d, r, u, s), dataChanged)
    ELSE IF v \in {"App_2", "part_000"} /\ ~dataChanged THEN old
    ELSE ViewsOf(v, d, r, u, s)

\* the first render: every useMemo computes from the initial state
InitialViews(v) ==
    ViewsOf(v, << >>, S_all, S_all, [key |-> "ramo", direction |-> "asc"])


(***************************************************************************)
(* Module-level initialisation: which handles exist once the module has    *)
(* been evaluated.  A malformed configuration is one the loader or the     *)
(* SDK's initialisation rejects.                                           *)
(***************************************************************************)
ModuleInit(v, c) ==
    CASE v = "part_001" ->
            \* initializeApp / getFirestore are called unconditionally
            { [db |-> TRUE, auth |-> FALSE] }
      [] v \in {"App_1", "part_002"} ->
            \* if (firebaseConfig.apiKey) { initializeApp; getFirestore } in try
            { [db |-> (c = "valid"), auth |-> FALSE] }
      [] v = "part_000" ->
            \* if (firebaseConfig && firebaseConfig.apiKey) { ... }
            { [db |-> (c = "valid"), auth |-> (c = "valid")] }
      [] OTHER ->
            \* App_2, part_003: try { initializeApp; db = getFirestore; auth = getAuth }
            \* a throw of getAuth leaves db set and auth null
            IF c = "valid" THEN { [db |-> TRUE, auth |-> TRUE] }
            ELSE IF c = "absent" THEN { [db |-> FALSE, auth |-> FALSE] }
            ELSE { [db |-> b, auth |-> FALSE] : b \in BOOLEAN }

\* the useState initial values and the idle environment
Fresh ==
    /\ phase = "constructed"
    /\ data = << >>
    /\ loading = TRUE
    /\ error = "none"
    /\ user = NoUser
    /\ selectedRamo = S_all
    /\ selectedUR = S_all
    /\ sortConfig = [key |-> "ramo", direction |-> "asc"]
    /\ rawDoc = NoDoc
    /\ debugStatus = "Iniciando"
    /\ timer = FALSE
    /\ signIn = "idle"
    /\ probe = "idle"
    /\ authListener = FALSE
    /\ effectUser = NoUser
    /\ dataListeners = 0
    /\ streamLive = FALSE
    /\ authEvents = 0
    /\ subscribeCalls = 0
    /\ lastDocs = << >>
    /\ views = InitialViews(variant)

Init ==
    /\ variant \in Variants
    /\ config \in Configs
    /\ \E h \in ModuleInit(variant, config) : db = h.db /\ auth = h.auth
    /\ Fresh


(***************************************************************************)
(* Actions.                                                                *)
(***************************************************************************)
constVars == << variant, config, db, auth >>
uiVars    == << selectedRamo, selectedUR, sortConfig >>

\* the cleanup `() => unsubscribe()` releases the listener the effect registered
UnsubscribeLeaks(n) == n
Unsubscribe(n) == n - 1

\* setData(...) of the success callback: the cache is replaced by the mapped
\* documents of the snapshot (snapshot.empty gives setData([]))
NextDataKeepsOnEmpty(old, docs) == IF docs = << >> THEN old ELSE MapDocs(variant, docs)
NextDataAppends(old, docs) == old \o MapDocs(variant, docs)
NextData(old, docs) == MapDocs(variant, docs)

\* The effects of the first commit.
Mount ==
    /\ phase = "constructed"
    /\ phase' = "mounted"
    /\ IF HasAuth(variant)
       THEN \* auth effect: if (!firebaseConfig || !auth) { setTimeout } else
            \* { performAuth(); onAuthStateChanged(...) }; the data effect
            \* returns at once because user is null
            /\ timer' = ~auth
            /\ signIn' = IF auth THEN "pending" ELSE "idle"
            /\ authListener' = auth
            /\ UNCHANGED << error, loading, dataListeners, streamLive,
                            subscribeCalls, probe >>
       ELSE IF variant # "part_001" /\ ~db
       THEN \* if (!firebaseConfig.apiKey || !db) { setError; setLoading(false); return }
            /\ error' = "config"
            /\ loading' = FALSE
            /\ UNCHANGED << timer, signIn, authListener, dataListeners, streamLive,
                            subscribeCalls, probe >>
       ELSE \* onSnapshot(...); part_002 first starts getDocs(limit(1))
            /\ dataListeners' = dataListeners + 1
            /\ streamLive' = TRUE
            /\ subscribeCalls' = subscribeCalls + 1
            /\ probe' = IF variant = "part_002" THEN "pending" ELSE "idle"
            /\ UNCHANGED << error, loading, timer, signIn, authListener >>
    /\ UNCHANGED constVars
    /\ UNCHANGED uiVars
    /\ UNCHANGED << data, user, rawDoc, debugStatus, effectUser, authEvents, lastDocs, views >>

\* setTimeout callback: if (!auth) { setError(...); setLoading(false) }
TimerFires ==
    /\ phase = "mounted"
    /\ timer
    /\ timer' = FALSE
    /\ IF ~auth
       THEN error' = "config" /\ loading' = FALSE
       ELSE UNCHANGED << error, loading >>
    /\ UNCHANGED constVars
    /\ UNCHANGED uiVars
    /\ UNCHANGED << phase, data, user, rawDoc, debugStatus, signIn, probe,
                    authListener, effectUser, dataListeners, streamLive,
                    authEvents, subscribeCalls, lastDocs, views >>

\* await signIn...() returns: performAuth ends without touching the state
SignInResolved ==
    /\ signIn = "pending"
    /\ signIn' = "ok"
    /\ UNCHANGED constVars
    /\ UNCHANGED uiVars
    /\ UNCHANGED << phase, data, loading, error, user, rawDoc, debugStatus, timer,
                    probe, authListener, effectUser, dataListeners, streamLive,
                    authEvents, subscribeCalls, lastDocs, views >>

\* await signIn...() throws: catch { setError(...); setLoading(false) }
\* (a state update of a component that is no longer mounted is dropped)
SignInRejectedUnguarded ==
    /\ signIn = "pending"
    /\ signIn' = "failed"
    /\ error' = "auth"
    /\ loading' = FALSE
    /\ UNCHANGED constVars
    /\ UNCHANGED uiVars
    /\ UNCHANGED << phase, data, user, rawDoc, debugStatus, timer, probe,
                    authListener, effectUser, dataListeners, streamLive,
                    authEvents, subscribeCalls, lastDocs, views >>
SignInRejected ==
    /\ signIn = "pending"
    /\ signIn' = "failed"
    /\ IF phase = "mounted"
       THEN error' = "auth" /\ loading' = FALSE
       ELSE UNCHANGED << error, loading >>
    /\ UNCHANGED constVars
    /\ UNCHANGED uiVars
    /\ UNCHANGED << phase, data, user, rawDoc, debugStatus, timer, probe,
                    authListener, effectUser, dataListeners, streamLive,
                    authEvents, subscribeCalls, lastDocs, views >>

\* onAuthStateChanged callback: setUser(currentUser);
\* App_2 and part_000 add: if (currentUser) setLoading(false)
AuthStateChanged ==
    /\ phase = "mounted"
    /\ authListener
    /\ authEvents < MaxAuthEvents
    /\ \E u \in Users \cup {NoUser} :
          /\ user' = u
          /\ loading' = IF variant # "part_003" /\ u # NoUser THEN FALSE ELSE loading
    /\ authEvents' = authEvents + 1
    /\ UNCHANGED constVars
    /\ UNCHANGED uiVars
    /\ UNCHANGED << phase, data, error, rawDoc, debugStatus, timer, signIn, probe,
                    authListener, effectUser, dataListeners, streamLive,
                    subscribeCalls, lastDocs, views >>

\* The data effect re-runs because `user` changed: the cleanup of the
\* previous run first, then if (!user || !db) return; onSnapshot(...)
RunDataEffectNoGuard ==
    /\ phase = "mounted"
    /\ HasAuth(variant)
    /\ user # effectUser
    /\ LET released == IF effectUser # NoUser /\ db
                       THEN Unsubscribe(dataListeners) ELSE dataListeners
       IN /\ dataListeners' = released + 1
          /\ streamLive' = TRUE
          /\ subscribeCalls' = subscribeCalls + 1
    /\ effectUser' = user
    /\ UNCHANGED constVars
    /\ UNCHANGED uiVars
    /\ UNCHANGED << phase, data, loading, error, user, rawDoc, debugStatus, timer,
                    signIn, probe, authListener, authEvents, lastDocs, views >>
RunDataEffect ==
    /\ phase = "mounted"
    /\ HasAuth(variant)
    /\ user # effectUser
    /\ LET released == IF effectUser # NoUser /\ db
                       THEN Unsubscribe(dataListeners) ELSE dataListeners
       IN IF user # NoUser /\ db
          THEN /\ dataListeners' = released + 1
               /\ streamLive' = TRUE
               /\ subscribeCalls' = subscribeCalls + 1
          ELSE /\ dataListeners' = released
               /\ streamLive' = FALSE
               /\ UNCHANGED subscribeCalls
    /\ effectUser' = user
    /\ UNCHANGED constVars
    /\ UNCHANGED uiVars
    /\ UNCHANGED << phase, data, loading, error, user, rawDoc, debugStatus, timer,
                    signIn, probe, authListener, authEvents, lastDocs, views >>

\* onSnapshot success callback, for the documents of one snapshot
Deliver(docs) ==
    /\ phase = "mounted"
    /\ dataListeners > 0
    /\ streamLive
    /\ data' = NextData(data, docs)
    /\ lastDocs' = docs
    /\ debugStatus' = IF HasDebugInfo(variant)
                      THEN (IF docs = << >> THEN "vacia" ELSE "cargados")
                      ELSE debugStatus
    /\ loading' = FALSE
    /\ UNCHANGED constVars
    /\ UNCHANGED uiVars
    /\ UNCHANGED << phase, error, user, rawDoc, timer, signIn, probe, authListener,
                    effectUser, dataListeners, streamLive, authEvents, subscribeCalls >>
    /\ views' = Render(views, variant, data', selectedRamo, selectedUR, sortConfig, TRUE)

OnSnapshotClearsError ==
    /\ phase = "mounted"
    /\ dataListeners > 0
    /\ streamLive
    /\ \E docs \in Snapshots :
          /\ data' = NextData(data, docs)
          /\ lastDocs' = docs
          /\ debugStatus' = IF HasDebugInfo(variant)
                            THEN (IF docs = << >> THEN "vacia" ELSE "cargados")
                            ELSE debugStatus
    /\ loading' = FALSE
    /\ error' = "none"
    /\ UNCHANGED constVars
    /\ UNCHANGED uiVars
    /\ UNCHANGED << phase, user, rawDoc, timer, signIn, probe, authListener,
                    effectUser, dataListeners, streamLive, authEvents, subscribeCalls >>
    /\ views' = Render(views, variant, data', selectedRamo, selectedUR, sortConfig, TRUE)
\* a snapshot of the collection arrives
OnSnapshot == \E docs \in Snapshots : Deliver(docs)

\* a snapshot of the larger collection arrives
OnWideSnapshot == \E docs \in WideSnapshots : Deliver(docs)

\* a snapshot of the documents for the normalizer arrives
OnKeySnapshot == \E docs \in KeySnapshots : Deliver(docs)

\* onSnapshot error callback: setError(...) (part_001: console.error only);
\* setLoading(false).  The store ends a listener that reported an error.
OnSnapshotErrorClearsData ==
    /\ phase = "mounted"
    /\ dataListeners > 0
    /\ streamLive
    /\ streamLive' = FALSE
    /\ error' = IF HasErrorState(variant) THEN "subscription" ELSE error
    /\ loading' = FALSE
    /\ data' = << >>
    /\ UNCHANGED constVars
    /\ UNCHANGED uiVars
    /\ UNCHANGED << phase, user, rawDoc, debugStatus, timer, signIn, probe,
                    authListener, effectUser, dataListeners, authEvents,
                    subscribeCalls, lastDocs, views >>
OnSnapshotError ==
    /\ phase = "mounted"
    /\ dataListeners > 0
    /\ streamLive
    /\ streamLive' = FALSE
    /\ error' = IF HasErrorState(variant) THEN "subscription" ELSE error
    /\ loading' = FALSE
    /\ UNCHANGED constVars
    /\ UNCHANGED uiVars
    /\ UNCHANGED << phase, data, user, rawDoc, debugStatus, timer, signIn, probe,
                    authListener, effectUser, dataListeners, authEvents,
                    subscribeCalls, lastDocs, views >>

\* part_002: getDocs(query(colRef, limit(1))).then(snap => { if (!snap.empty)
\* setRawDoc(snap.docs[0].data()) }).catch(e => console.log(...))
ProbeSettled ==
    /\ probe = "pending"
    /\ probe' = "done"
    /\ \/ \E d \in DocPool :
             rawDoc' = IF phase = "mounted" THEN d.fields ELSE rawDoc
       \/ UNCHANGED rawDoc
    /\ UNCHANGED constVars
    /\ UNCHANGED uiVars
    /\ UNCHANGED << phase, data, loading, error, user, debugStatus, timer, signIn,
                    authListener, effectUser, dataListeners, streamLive,
                    authEvents, subscribeCalls, lastDocs, views >>

\* part_003, ramo selector: setSelectedRamo(e.target.value); setSelectedUR('all')
SelectRamo ==
    /\ phase = "mounted"
    /\ variant = "part_003"
    /\ Screen = "dashboard"
    /\ \E r \in UniqueRamos(data) : selectedRamo' = r
    /\ selectedUR' = S_all
    /\ UNCHANGED constVars
    /\ UNCHANGED sortConfig
    /\ UNCHANGED << phase, data, loading, error, user, rawDoc, debugStatus, timer,
                    signIn, probe, authListener, effectUser, dataListeners,
                    streamLive, authEvents, subscribeCalls, lastDocs >>
    /\ views' = Render(views, variant, data', selectedRamo', selectedUR', sortConfig', FALSE)

\* part_003, institution selector: setSelectedUR(e.target.value)
SelectURResetsRamo ==
    /\ phase = "mounted"
    /\ variant = "part_003"
    /\ Screen = "dashboard"
    /\ \E u \in UniqueURs(data, selectedRamo) : selectedUR' = u
    /\ UNCHANGED constVars
    /\ selectedRamo' = S_all
    /\ UNCHANGED sortConfig
    /\ UNCHANGED << phase, data, loading, error, user, rawDoc, debugStatus, timer,
                    signIn, probe, authListener, effectUser, dataListeners,
                    streamLive, authEvents, subscribeCalls, lastDocs >>
    /\ views' = Render(views, variant, data', selectedRamo', selectedUR', sortConfig', FALSE)
SelectUR ==
    /\ phase = "mounted"
    /\ variant = "part_003"
    /\ Screen = "dashboard"
    /\ \E u \in UniqueURs(data, selectedRamo) : selectedUR' = u
    /\ UNCHANGED constVars
    /\ UNCHANGED << selectedRamo, sortConfig >>
    /\ UNCHANGED << phase, data, loading, error, user, rawDoc, debugStatus, timer,
                    signIn, probe, authListener, effectUser, dataListeners,
                    streamLive, authEvents, subscribeCalls, lastDocs >>
    /\ views' = Render(views, variant, data', selectedRamo', selectedUR', sortConfig', FALSE)

\* part_003, a click on a sortable column header of the table (the table is
\* one `view` tab away whenever the dashboard is shown with data; the tab
\* itself, useState('dashboard'), touches nothing else and is left out)
RequestSortKeepsDirection ==
    /\ phase = "mounted"
    /\ variant = "part_003"
    /\ Screen = "dashboard"
    /\ Len(data) > 0
    /\ \E key \in SortKeys :
          sortConfig' =
             [key |-> key,
              direction |-> IF sortConfig.key = key /\ sortConfig.direction = "asc"
                            THEN "desc"
                            ELSE IF sortConfig.key = key THEN "asc"
                            ELSE sortConfig.direction]
    /\ UNCHANGED constVars
    /\ UNCHANGED << selectedRamo, selectedUR >>
    /\ UNCHANGED << phase, data, loading, error, user, rawDoc, debugStatus, timer,
                    signIn, probe, authListener, effectUser, dataListeners,
                    streamLive, authEvents, subscribeCalls, lastDocs >>
    /\ views' = Render(views, variant, data', selectedRamo', selectedUR', sortConfig', FALSE)
RequestSortInPlace ==
    /\ phase = "mounted"
    /\ variant = "part_003"
    /\ Screen = "dashboard"
    /\ Len(data) > 0
    /\ \E key \in SortKeys :
          sortConfig' =
             [key |-> key,
              direction |-> IF sortConfig.key = key /\ sortConfig.direction = "asc"
                            THEN "desc" ELSE "asc"]
    /\ data' = SortRows(data, sortConfig')
    /\ UNCHANGED constVars
    /\ UNCHANGED << selectedRamo, selectedUR >>
    /\ UNCHANGED << phase, loading, error, user, rawDoc, debugStatus, timer,
                    signIn, probe, authListener, effectUser, dataListeners,
                    streamLive, authEvents, subscribeCalls, lastDocs >>
    /\ views' = Render(views, variant, data', selectedRamo', selectedUR', sortConfig', FALSE)
RequestSort ==
    /\ phase = "mounted"
    /\ variant = "part_003"
    /\ Screen = "dashboard"
    /\ Len(data) > 0
    /\ \E key \in SortKeys :
          sortConfig' =
             [key |-> key,
              direction |-> IF sortConfig.key = key /\ sortConfig.direction = "asc"
                            THEN "desc" ELSE "asc"]
    /\ UNCHANGED constVars
    /\ UNCHANGED << selectedRamo, selectedUR >>
    /\ UNCHANGED << phase, data, loading, error, user, rawDoc, debugStatus, timer,
                    signIn, probe, authListener, effectUser, dataListeners,
                    streamLive, authEvents, subscribeCalls, lastDocs >>
    /\ views' = Render(views, variant, data', selectedRamo', selectedUR', sortConfig', FALSE)

\* The view is unmounted: every effect's cleanup runs (clearTimeout, the auth
\* unsubscribe, the data unsubscribe).
Teardown ==
    /\ phase \in {"constructed", "mounted"}
    /\ phase' = "torn"
    /\ timer' = FALSE
    /\ authListener' = FALSE
    /\ dataListeners' =
          IF phase = "mounted" /\ (IF HasAuth(variant) THEN effectUser # NoUser /\ db
                                   ELSE subscribeCalls > 0)
          THEN Unsubscribe(dataListeners) ELSE dataListeners
    /\ streamLive' = FALSE
    /\ UNCHANGED constVars
    /\ UNCHANGED uiVars
    /\ UNCHANGED << data, loading, error, user, rawDoc, debugStatus, signIn, probe,
                    effectUser, authEvents, subscribeCalls, lastDocs, views >>

\* App_1 and part_002: the button of the diagnostic screen,
\* window.location.reload(): the page starts again with the same configuration
Reload ==
    /\ phase = "mounted"
    /\ variant \in {"App_1", "part_002"}
    /\ Screen = "errorView"
    /\ phase' = "constructed"
    /\ data' = << >>
    /\ loading' = TRUE
    /\ error' = "none"
    /\ user' = NoUser
    /\ selectedRamo' = S_all
    /\ selectedUR' = S_all
    /\ sortConfig' = [key |-> "ramo", direction |-> "asc"]
    /\ rawDoc' = NoDoc
    /\ debugStatus' = "Iniciando"
    /\ timer' = FALSE
    /\ signIn' = "idle"
    /\ probe' = "idle"
    /\ authListener' = FALSE
    /\ effectUser' = NoUser
    /\ dataListeners' = 0
    /\ streamLive' = FALSE
    /\ authEvents' = 0
    /\ subscribeCalls' = 0
    /\ lastDocs' = << >>
    /\ views' = InitialViews(variant)
    /\ UNCHANGED constVars

Next ==
    \/ Mount
    \/ TimerFires
    \/ SignInResolved
    \/ SignInRejected
    \/ AuthStateChanged
    \/ RunDataEffect
    \/ OnSnapshot
    \/ OnSnapshotError
    \/ ProbeSettled
    \/ SelectRamo
    \/ SelectUR
    \/ RequestSort
    \/ Teardown
    \/ Reload

Spec == Init /\ [][Next]_vars

\* React runs the effects of a committed render, and a pending timeout fires
LiveSpec == Init /\ [][Next]_vars /\ WF_vars(Mount) /\ WF_vars(TimerFires)

(***************************************************************************)
(* The same component over the larger collection, from the moment its data *)
(* listener is registered (configuration valid, effects run, and a signed  *)
(* in user where the iteration signs in), under the events that change     *)
(* what is displayed: snapshots, the two filters, the sort headers.        *)
(***************************************************************************)
ViewInit ==
    /\ variant \in Variants
    /\ config = "valid"
    /\ db = TRUE
    /\ auth = HasAuth(variant)
    /\ phase = "mounted"
    /\ data = << >>
    /\ loading = (variant \notin {"App_2", "part_000"})
    /\ error = "none"
    /\ user = (IF HasAuth(variant) THEN "u1" ELSE NoUser)
    /\ selectedRamo = S_all
    /\ selectedUR = S_all
    /\ sortConfig = [key |-> "ramo", direction |-> "asc"]
    /\ rawDoc = NoDoc
    /\ debugStatus = "Iniciando"
    /\ timer = FALSE
    /\ signIn = (IF HasAuth(variant) THEN "ok" ELSE "idle")
    /\ probe = (IF variant = "part_002" THEN "done" ELSE "idle")
    /\ authListener = HasAuth(variant)
    /\ effectUser = user
    /\ dataListeners = 1
    /\ streamLive = TRUE
    /\ authEvents = (IF HasAuth(variant) THEN 1 ELSE 0)
    /\ subscribeCalls = 1
    /\ lastDocs = << >>
    /\ views = InitialViews(variant)

ViewNext ==
    \/ OnWideSnapshot
    \/ SelectRamo
    \/ SelectUR
    \/ RequestSort

ViewSpec == ViewInit /\ [][ViewNext]_vars

\* The same component, from the same moment, under snapshots of the
\* documents for the normalizer.
NormNext == OnKeySnapshot

NormSpec == ViewInit /\ [][NormNext]_vars


(***************************************************************************)
(* Claims.                                                                 *)
(***************************************************************************)
Part003 == variant = "part_003"

\* the stored per-record rate equals (pagado / aprobado) * 100 when
\* aprobado > 0 and is 0 otherwise
RecordRateExact ==
    \A i \in 1..Len(data) :
        LET r == data[i] IN
        /\ r.avance.d > 0
        /\ IF r.aprobado > 0
           THEN r.avance.n * r.aprobado = r.pagado * 100 * r.avance.d
           ELSE r.avance.n = 0
        /\ (r.aprobado = 200 /\ r.pagado = 150) => r.avance.n = 75 * r.avance.d

\* C1 (as stated): the execution rate of the filtered totals and of every
\* record equals (paid / approved) * 100 when approved > 0 and 0 otherwise.
C1_RateIsExactRatio ==
    Part003 =>
        /\ RecordRateExact
        /\ IF TotalAprobado > 0
           THEN Porcentaje * TotalAprobado = 1000 * TotalPagado
           ELSE Porcentaje = 0

\* C1 (amended): every record's rate is exactly (paid / approved) * 100 when
\* approved > 0 and 0 otherwise (75 for 200 / 150, 0 for approved = 0 with a
\* nonzero paid amount); the rate of the filtered totals is that ratio rounded
\* to one decimal place (at most 0.05 away from it) when the total approved
\* is > 0 and 0 otherwise.
C1_RateIsRoundedRatio ==
    Part003 =>
        /\ RecordRateExact
        /\ IF TotalAprobado > 0
           THEN /\ 2 * Abs(Porcentaje * TotalAprobado - 1000 * TotalPagado) <= TotalAprobado
                /\ (TotalAprobado = 200 /\ TotalPagado = 150) => Porcentaje = 750
           ELSE Porcentaje = 0

\* a record with approved 0 and paid nonzero is cached, and the totals' ratio
\* has more than one decimal
C1_Witness ==
    /\ Part003
    /\ \E i \in 1..Len(data) : data[i].aprobado = 0 /\ data[i].pagado # 0
    /\ TotalAprobado > 0
    /\ Porcentaje * TotalAprobado # 1000 * TotalPagado

\* C2: the cache holds exactly one normalized record per document of the
\* snapshot delivered last, in the snapshot's order, and nothing else.
C2_CacheIsLastSnapshot ==
    /\ Len(data) = Len(lastDocs)
    /\ \A i \in 1..Len(data) :
          /\ data[i].id = lastDocs[i].id
          /\ data[i] = NormalizeDoc(variant, lastDocs[i])
    /\ \A i \in 1..Len(data) :
          \E j \in 1..Len(lastDocs) : lastDocs[j].id = data[i].id

\* ramo "B" is still selected, so an earlier snapshot held document d2; the
\* latest snapshot is empty and d2 has no record
C2_Witness ==
    /\ Part003
    /\ selectedRamo = <<"B">>
    /\ lastDocs = << >>
    /\ data = << >>
    /\ streamLive

\* C3: a step of the subscription's error callback leaves the cache and every
\* other piece of view state but the error message and the loading flag
\* unchanged.
C3_ErrorKeepsCache ==
    [][OnSnapshotError =>
          /\ data' = data
          /\ UNCHANGED << user, selectedRamo, selectedUR, sortConfig, rawDoc,
                          debugStatus >>]_vars

\* the error callback has fired while the cache held records
C3_Witness ==
    /\ error = "subscription"
    /\ Len(data) > 0
    /\ ~streamLive
    /\ dataListeners > 0

\* C4 (as stated): when the error callback fires while the dashboard shows a
\* non-empty cache, the dashboard (totals, charts, table) stays displayed.
C4_DashboardSurvivesError ==
    [][(OnSnapshotError /\ Screen = "dashboard" /\ Len(data) > 0)
          => Screen' = "dashboard"]_vars

\* C5: at most one data listener is registered at any time (a re-run of the
\* data effect releases the previous one first), and after teardown neither
\* a data listener nor the auth listener remains.
C5_ListenersReleased ==
    /\ dataListeners \in {0, 1}
    /\ phase = "torn" => (dataListeners = 0 /\ ~authListener /\ ~streamLive)

\* the data effect subscribed twice (the user changed) and the view was then
\* torn down
C5_Witness ==
    /\ phase = "torn"
    /\ subscribeCalls >= 2
    /\ effectUser # NoUser

\* C6 (as stated): with an absent or malformed configuration no subscription
\* to the store is ever attempted, in any iteration.
C6_NoSubscriptionWithoutConfig ==
    config # "valid" => (subscribeCalls = 0 /\ dataListeners = 0)

\* C7 (as stated): with the configuration missing, unless the view is torn
\* down, eventually a configuration error is set and loading is off.
C7_ConfigErrorEventuallyShown ==
    (config = "absent") =>
        <>(phase = "torn" \/ (error = "config" /\ ~loading /\ Screen = "errorView"))

\* C8 (as stated): once sign-in has been rejected the cache stays empty for
\* the rest of the session.
C8_AuthFailureKeepsCacheEmpty ==
    [][(signIn = "failed" /\ data = << >>) => data' = << >>]_vars

\* C9: once an error is set it stays set, and the error view is what a
\* mounted view shows, whatever event follows, except a manual reload.
C9_ErrorIsSticky ==
    [][(error # "none" /\ ~Reload) =>
          /\ error' # "none"
          /\ phase' = "mounted" => Screen' = "errorView"]_vars

\* a subscription error was followed by a change of user, a new subscription
\* and a snapshot, and the error view is still shown
C9_Witness ==
    /\ error = "subscription"
    /\ streamLive
    /\ phase = "mounted"
    /\ Len(data) > 0
    /\ subscribeCalls >= 2
    /\ Screen = "errorView"

\* C10 (as stated): in every iteration a step of the subscription's error
\* callback leaves an error message in state and the error view rendered.
C10_ErrorCallbackShowsError ==
    [][OnSnapshotError => (error' # "none" /\ Screen' = "errorView")]_vars

(***************************************************************************)
(* Claims on filtering, grouping, Top-N, sorting and coercion.             *)
(***************************************************************************)
\* the records a ramo filter and an institution filter let through
RecsMatching(recs, ramo, ur) ==
    SelectSeq(recs, LAMBDA d :
        /\ (ramo = S_all \/ (d.ramo.t = "str" /\ d.ramo.s = ramo))
        /\ (ur = S_all \/ (d.ur.t = "str" /\ d.ur.s = ur)))

IdsOf(recs) == { recs[i].id : i \in 1..Len(recs) }

\* C11: a cached record is among the displayed rows if and only if (the ramo
\* filter is 'all' or equals the record's ramo) and (the institution filter
\* is 'all' or equals the record's ur); the rows hold nothing else and no
\* record twice.
C11_FilterIff ==
    Part003 =>
        /\ \A i \in 1..Len(data) :
              (data[i].id \in IdsOf(views.rows)) <=>
                 /\ (selectedRamo = S_all \/ data[i].ramo = Str(selectedRamo))
                 /\ (selectedUR = S_all \/ data[i].ur = Str(selectedUR))
        /\ \A j \in 1..Len(views.rows) : \E i \in 1..Len(data) : views.rows[j] = data[i]
        /\ Cardinality(IdsOf(views.rows)) = Len(views.rows)

\* both filters are set, some records pass and some do not
C11_Witness ==
    /\ Part003
    /\ selectedRamo # S_all
    /\ selectedUR # S_all
    /\ Len(views.rows) > 0
    /\ \E i \in 1..Len(data) : data[i].ramo = Str(selectedRamo) /\ data[i].ur # Str(selectedUR)
    /\ \E i \in 1..Len(data) : data[i].ramo # Str(selectedRamo) /\ data[i].ur = Str(selectedUR)

\* C12: with ramo A selected, choosing institution X leaves exactly the
\* records with ramo A and ur X in the rows and in the totals, and choosing
\* 'all' again leaves exactly the records with ramo A.
C12_FilterComposition ==
    [][(Part003 /\ SelectUR) =>
          LET want == RecsMatching(data, selectedRamo, selectedUR')
          IN /\ IdsOf(views'.rows) = IdsOf(want)
             /\ Len(views'.rows) = Len(want)
             /\ views'.analytics.totalAprobado = SumOver(want, "aprobado")
             /\ views'.analytics.totalPagado = SumOver(want, "pagado")
             /\ selectedUR' = S_all =>
                   IdsOf(views'.rows) = IdsOf(RecsMatching(data, selectedRamo, S_all))]_vars

\* ramo A and institution X are selected; A has records of another
\* institution, which are not listed
C12_Witness ==
    /\ Part003
    /\ selectedRamo = <<"A">>
    /\ selectedUR = <<"X">>
    /\ Len(views.rows) > 0
    /\ Len(views.rows) < Len(RecsMatching(data, <<"A">>, S_all))
    /\ Len(RecsMatching(data, <<"A">>, S_all)) < Len(data)

\* what the reducers of the running iteration are given: the filtered rows
\* in part_003, the whole cache elsewhere
ReducerInputs ==
    GroupInputs(variant, IF Part003 THEN views.rows ELSE data)

\* C13 (as stated): the groups are exactly one per distinct ramo among the
\* records given to the reducer, and each group's aprobado and pagado are
\* the sums over exactly the records of that ramo.
C13_OneGroupPerRamo ==
    LET ins    == ReducerInputs
        groups == Grouped(variant, ins)
    IN /\ \A i \in 1..Len(ins) :
             Cardinality({ g \in 1..Len(groups) : groups[g].name = ins[i].name }) = 1
       /\ \A g \in 1..Len(groups) :
             LET members == SelectSeq(ins, LAMBDA x : x.name = groups[g].name)
             IN /\ members # << >>
                /\ groups[g].aprobado = SumOver(members, "aprobado")
                /\ groups[g].pagado = SumOver(members, "pagado")

\* the position at which a ramo is first seen among the reducer's records
FirstSeen(ins, name) == CHOOSE i \in 1..Len(ins) :
                            /\ ins[i].name = name
                            /\ \A j \in 1..(i - 1) : ins[j].name # name

\* C14 (as stated): the Top-N list holds min(8, number of groups) groups, in
\* descending order of approved total, none smaller than a group left out,
\* and groups with equal approved totals in the order their ramo was first
\* seen.
C14_TopNOrdered ==
    LET ins    == ReducerInputs
        groups == Grouped(variant, ins)
        top    == views.analytics.top
    IN /\ Len(top) = (IF Len(groups) < TopN THEN Len(groups) ELSE TopN)
       /\ \A i \in 1..Len(top) : \E g \in 1..Len(groups) : groups[g] = top[i]
       /\ \A i, j \in 1..Len(top) : i < j => top[i].aprobado >= top[j].aprobado
       /\ \A g \in 1..Len(groups) :
             (\A i \in 1..Len(top) : top[i].name # groups[g].name) =>
                \A i \in 1..Len(top) : top[i].aprobado >= groups[g].aprobado
       /\ \A i, j \in 1..Len(top) :
             (i < j /\ top[i].aprobado = top[j].aprobado) =>
                FirstSeen(ins, top[i].name) < FirstSeen(ins, top[j].name)

\* C15: the displayed totals and rate are those of all the records given to
\* the reducer, whether or not their group is in the Top-N list.
C15_TotalsOverAll ==
    LET ins == ReducerInputs
        ta  == SumOver(ins, "aprobado")
        tp  == SumOver(ins, "pagado")
    IN /\ views.analytics.totalAprobado = ta
       /\ views.analytics.totalPagado = tp
       /\ views.analytics.rate = RateOf(variant, ta, tp)
       /\ Part003 =>
             /\ ta = SumOver(RecsMatching(data, selectedRamo, selectedUR), "aprobado")
             /\ tp = SumOver(RecsMatching(data, selectedRamo, selectedUR), "pagado")

\* there are more groups than the list holds, and the totals exceed the
\* sums over the list
C15_Witness ==
    /\ Len(Grouped(variant, ReducerInputs)) > TopN
    /\ Len(views.analytics.top) = TopN
    /\ views.analytics.totalAprobado > SumOver(views.analytics.top, "aprobado")
    /\ views.analytics.totalPagado > SumOver(views.analytics.top, "pagado")

\* C16: a sort request for the active key flips the direction, a request
\* for another key makes it the active key with direction ascending.
C16_SortToggle ==
    [][RequestSort =>
          /\ sortConfig'.direction \in {"asc", "desc"}
          /\ sortConfig'.key = sortConfig.key =>
                sortConfig'.direction # sortConfig.direction
          /\ sortConfig'.key # sortConfig.key => sortConfig'.direction = "asc"]_vars

\* a key other than the initial one was requested twice in a row
C16_Witness ==
    /\ Part003
    /\ sortConfig = [key |-> "pagado", direction |-> "desc"]

\* the index of a row's record in the cache
CacheIndex(row) == CHOOSE i \in 1..Len(data) : data[i].id = row.id

\* C17: the rows are in the order of the active key and direction (never
\* decreasing when ascending, never increasing when descending), and rows
\* with equal keys are in the order of the cache.
C17_RowsSortedStable ==
    Part003 =>
        \A i, j \in 1..Len(views.rows) :
            i < j =>
              LET a == views.rows[i]
                  b == views.rows[j]
              IN /\ sortConfig.direction = "asc" => ~FieldLess(sortConfig.key, b, a)
                 /\ sortConfig.direction = "desc" => ~FieldLess(sortConfig.key, a, b)
                 /\ (~FieldLess(sortConfig.key, a, b) /\ ~FieldLess(sortConfig.key, b, a))
                       => CacheIndex(a) < CacheIndex(b)

\* descending order, with rows of different keys and rows of equal keys
C17_Witness ==
    /\ Part003
    /\ sortConfig.direction = "desc"
    /\ \E i, j \in 1..Len(views.rows) :
          i < j /\ FieldLess(sortConfig.key, views.rows[j], views.rows[i])
    /\ \E i, j \in 1..Len(views.rows) :
          /\ i < j
          /\ ~FieldLess(sortConfig.key, views.rows[j], views.rows[i])
          /\ ~FieldLess(sortConfig.key, views.rows[i], views.rows[j])

\* C18: what the last render computed (rows, totals, rate, Top-N list,
\* option lists) is the function of the current cache, filters and sort.
C18_ViewsAreCurrent ==
    views = ViewsOf(variant, data, selectedRamo, selectedUR, sortConfig)

\* filters and sort have all been changed since the records arrived
C18_Witness ==
    /\ Part003
    /\ selectedRamo # S_all
    /\ selectedUR # S_all
    /\ sortConfig.key # "ramo"
    /\ sortConfig.direction = "desc"
    /\ Len(views.rows) > 0
    /\ Len(views.rows) < Len(data)

\* the raw value an iteration reads for an amount (fld is "aprobado" or
\* "pagado"); part_002 also reads it under its alias
RawAmounts(v, doc, fld) ==
    LET long  == IF fld = "aprobado" THEN K_MONTO_APROBADO ELSE K_MONTO_PAGADO
        short == IF fld = "aprobado" THEN K_APROBADO ELSE K_PAGADO
        blank == IF fld = "aprobado" THEN K_SP_MONTO_APROBADO ELSE K_SP_MONTO_PAGADO
    IN CASE v = "App_1"    -> { FindFieldTrim(doc.fields, long) }
         [] v = "part_002" -> { FindFieldAlias(doc.fields, long),
                                FindFieldAlias(doc.fields, short) }
         [] v = "part_001" -> { Prop(doc.fields, blank) }
         [] OTHER          -> { Prop(doc.fields, long) }

\* absent, null or not parseable as a number
NotANumber(val) ==
    \/ val.t \in {"undef", "null", "nan"}
    \/ (val.t = "str" /\ StringToNumber(val.s).t = "nan")

\* the amount an iteration works with for a cached record
AmountOf(v, rec, fld) == GroupInput(v, rec)[fld]

\* the document with one more field, a proper number, in front
WithNumber(doc, key) == [doc EXCEPT !.fields = << Field(key, Num(1)) >> \o @]

\* C19: for a document whose approved (paid) field is absent, null or not
\* parseable, the amount of its cached record is exactly 0, the record's
\* other fields are those of the same document with a proper number in that
\* field, and no error is set.
C19_BadAmountIsZero ==
    /\ error = "none"
    /\ \A i \in 1..Len(data) :
          \A fld \in {"aprobado", "pagado"} :
             (\A val \in RawAmounts(variant, lastDocs[i], fld) : NotANumber(val)) =>
                /\ AmountOf(variant, data[i], fld) = 0
                /\ variant # "part_001" =>
                      LET key   == IF fld = "aprobado" THEN K_MONTO_APROBADO
                                   ELSE K_MONTO_PAGADO
                          other == NormalizeDoc(variant, WithNumber(lastDocs[i], key))
                      IN /\ other[fld] = 1
                         /\ \A f \in (DOMAIN other) \ {fld, "avance"} :
                               other[f] = data[i][f]

\* records are cached whose approved amount was null, whose approved amount
\* was not numeric and whose paid amount was absent
C19_Witness ==
    /\ error = "none"
    /\ \E i \in 1..Len(data) :
          /\ Null \in RawAmounts(variant, lastDocs[i], "aprobado")
          /\ AmountOf(variant, data[i], "pagado") > 0
    /\ \E i \in 1..Len(data) :
          \E val \in RawAmounts(variant, lastDocs[i], "aprobado") : val.t = "str"
    /\ \E i \in 1..Len(data) :
          /\ lastDocs[i].id = "w08"
          /\ AmountOf(variant, data[i], "pagado") = 0

\* a key without its leading and trailing white space, in upper case
Canonical(k) ==
    LET inked == { i \in 1..Len(k) : ~IsSpace(k[i]) }
    IN IF inked = {} THEN << >>
       ELSE LET lo == CHOOSE i \in inked : \A j \in inked : i <= j
                hi == CHOOSE i \in inked : \A j \in inked : j <= i
            IN [i \in 1..(hi - lo + 1) |-> UpperChar(k[lo + i - 1])]

\* two documents that differ only in the case and the outer white space of
\* their keys
SameButSpelling(a, b) ==
    /\ Len(a.fields) = Len(b.fields)
    /\ \A i \in 1..Len(a.fields) :
          /\ Canonical(a.fields[i].k) = Canonical(b.fields[i].k)
          /\ a.fields[i].v = b.fields[i].v

\* C20: in the iterations that look fields up with findField, two documents
\* that differ only in the letter case and the leading or trailing white
\* space of their keys give the same cached record (but for the id).
C20_SpellingIrrelevant ==
    variant \in {"App_1", "part_002"} =>
        \A i, j \in 1..Len(data) :
            SameButSpelling(lastDocs[i], lastDocs[j]) =>
                [data[i] EXCEPT !.id = ""] = [data[j] EXCEPT !.id = ""]

\* w03 and w05, the same document under two spellings, are both cached
C20_Witness ==
    /\ variant \in {"App_1", "part_002"}
    /\ \E i, j \in 1..Len(data) :
          /\ i # j
          /\ SameButSpelling(lastDocs[i], lastDocs[j])
          /\ \E f \in 1..Len(lastDocs[i].fields) :
                lastDocs[i].fields[f].k # lastDocs[j].fields[f].k
          /\ data[i].aprobado > 0
          /\ data[i].pagado > 0

(***************************************************************************)
(* Claims on the normalizer, the subscription, the filters and the frame.  *)
(***************************************************************************)
\* a key without its outer white space, in upper case, with an underscore
\* for each inner white-space character
CanonicalSpaced(k) == ReplaceSpaces(Canonical(k))

\* two documents that differ only in the case, the outer white space and
\* the blank-or-underscore of their keys
SameButSpacing(a, b) ==
    /\ Len(a.fields) = Len(b.fields)
    /\ \A i \in 1..Len(a.fields) :
          /\ CanonicalSpaced(a.fields[i].k) = CanonicalSpaced(b.fields[i].k)
          /\ a.fields[i].v = b.fields[i].v

\* C21 (as stated): in the iterations that look fields up with findField, a
\* document whose keys are those of another up to case, surrounding white
\* space and blank-versus-underscore ('Monto Aprobado' for MONTO_APROBADO)
\* gets the same approved amount as the other.
C21_SpacedKeysAccepted ==
    variant \in {"App_1", "part_002"} =>
        \A i, j \in 1..Len(data) :
            SameButSpacing(lastDocs[i], lastDocs[j]) =>
                data[i].aprobado = data[j].aprobado

\* C22 (as stated): every record in the cache has an approved amount and a
\* paid amount that are not below zero, whatever the document carried.
C22_AmountsNonNegative ==
    \A i \in 1..Len(data) :
        /\ AmountOf(variant, data[i], "aprobado") >= 0
        /\ AmountOf(variant, data[i], "pagado") >= 0

\* the ramo and the institution a cached record holds (part_001 caches the
\* document as it is; the records of App_1 and part_002 have no institution)
RamoOf(v, rec) ==
    CASE v \in {"App_1", "part_002"} -> rec.DESC_RAMO
      [] v = "part_001"              -> Prop(rec.fields, K_DESC_RAMO)
      [] OTHER                       -> rec.ramo
UrOf(v, rec) ==
    CASE v \in {"App_1", "part_002"} -> Undefined
      [] v = "part_001"              -> Prop(rec.fields, K_DESC_UR)
      [] OTHER                       -> rec.ur

\* the sentinel an iteration puts for a ramo it does not find
SentinelOf(v) ==
    CASE v = "App_1"    -> S_SinClasificarUC
      [] v = "part_001" -> S_Otros
      [] v = "part_002" -> S_SinNombre
      [] OTHER          -> S_SinClasificar

\* the document has no field of that name under any spelling
Lacks(doc, key) ==
    \A f \in 1..Len(doc.fields) : CanonicalSpaced(doc.fields[f].k) # key

\* C23 (as stated): every record in the cache has a ramo and an institution
\* that are not empty; a document without a ramo field gets the sentinel
\* and one without an institution field gets "N/A".
C23_RamoAndUrNonEmpty ==
    \A i \in 1..Len(data) :
        /\ Truthy(RamoOf(variant, data[i]))
        /\ Truthy(UrOf(variant, data[i]))
        /\ Lacks(lastDocs[i], K_DESC_RAMO) =>
              RamoOf(variant, data[i]) = Str(SentinelOf(variant))
        /\ Lacks(lastDocs[i], K_DESC_UR) => UrOf(variant, data[i]) = Str(S_NA)

\* the document without its fields of that name (under any spelling)
WithoutField(doc, key) ==
    [doc EXCEPT !.fields = SelectSeq(@, LAMBDA f : CanonicalSpaced(f.k) # key)]

\* C30 (as stated): in the alias-aware normalizer the alias of a field is
\* consulted only when the primary field is absent: for a document that has
\* the primary field, the cached value is the one the document gives without
\* its alias field, and a numeric primary value is the cached amount.
C30_AliasOnlyWhenAbsent ==
    variant = "part_002" =>
        \A i \in 1..Len(data) :
            /\ \A fld \in {"aprobado", "pagado"} :
                  LET long  == IF fld = "aprobado" THEN K_MONTO_APROBADO ELSE K_MONTO_PAGADO
                      short == IF fld = "aprobado" THEN K_APROBADO ELSE K_PAGADO
                      value == FindFieldAlias(lastDocs[i].fields, long)
                  IN /\ value.t = "num" => data[i][fld] = value.n
                     /\ ~Lacks(lastDocs[i], long) =>
                           data[i][fld] =
                              NormalizeAlias(WithoutField(lastDocs[i], short))[fld]
            /\ ~Lacks(lastDocs[i], K_DESC_RAMO) =>
                  data[i].DESC_RAMO =
                     NormalizeAlias(WithoutField(lastDocs[i], K_RAMO)).DESC_RAMO

\* C24: delivering the snapshot delivered last once more leaves the cache
\* and every derived view as they are: in every state, what the success
\* callback would store and what the next render would compute for the
\* documents of the last snapshot are the present cache and views.
C24_DeliveryIdempotent ==
    LET again == NextData(data, lastDocs)
    IN /\ again = data
       /\ Render(views, variant, again, selectedRamo, selectedUR, sortConfig, TRUE) = views

\* a snapshot of several documents is cached and can be delivered again,
\* with filters and sort changed since it arrived
C24_Witness ==
    /\ Part003
    /\ streamLive
    /\ Len(lastDocs) > TopN
    /\ data = MapDocs(variant, lastDocs)
    /\ selectedRamo # S_all
    /\ selectedUR # S_all
    /\ sortConfig.direction = "desc"
    /\ Len(views.rows) > 0

\* C25 (as stated): in the iterations that sign in, at every moment at most
\* one data subscription is active and none is active while the user is
\* null.
C25_NoSubscriptionWithoutUser ==
    HasAuth(variant) =>
        /\ dataListeners <= 1
        /\ user = NoUser => dataListeners = 0

\* C25 (amended): in the iterations that sign in, at every moment at most
\* one data subscription is active; one is active only if the data effect
\* last ran with a user the auth listener delivered, and none is active once
\* the data effect has run for the null user; a subscription is opened only
\* in a run of the data effect for a non-null user, which first releases the
\* subscription of the previous user.
C25_SubscriptionFollowsEffect ==
    [][HasAuth(variant) =>
          /\ dataListeners <= 1 /\ dataListeners' <= 1
          /\ effectUser' = NoUser => dataListeners' = 0
          /\ dataListeners' = 1 => (effectUser' \in Users /\ authEvents' > 0)
          /\ subscribeCalls' # subscribeCalls =>
                /\ user \in Users
                /\ effectUser' = user
                /\ subscribeCalls' = subscribeCalls + 1
                /\ dataListeners' = 1]_vars

\* the user changed from one to another: the second subscription is the
\* only one active
C25_Witness ==
    /\ HasAuth(variant)
    /\ subscribeCalls = 2
    /\ dataListeners = 1
    /\ effectUser = "u2"
    /\ user = "u2"

\* C26 (as stated): the selected ramo is 'all' or the ramo of a cached
\* record, and the selected institution is 'all' or the institution of a
\* cached record that matches the selected ramo: both are values their
\* selectors offer.
C26_SelectionIsOffered ==
    Part003 =>
        /\ selectedRamo \in UniqueRamos(data)
        /\ selectedUR \in UniqueURs(data, selectedRamo)

\* the sort states of the table
SortConfigs == [key : SortKeys, direction : {"asc", "desc"}]

\* C27 (as stated): the Top-N list (members and order) is the same under
\* every sort key and direction of the table: it is the list the same cache
\* and filters give with any other sort state.
C27_TopIgnoresSort ==
    Part003 =>
        \A cfg \in SortConfigs :
            views.analytics.top =
               ViewsOf(variant, data, selectedRamo, selectedUR, cfg).analytics.top

\* C28: a step that changes a filter or the sort state, and a step that
\* recomputes the views without a new snapshot, leave the cache as it is,
\* contents and order; a step that changes the cache is a run of the
\* snapshot success callback.
C28_CacheFrame ==
    [][/\ uiVars' # uiVars => data' = data
       /\ views' # views /\ lastDocs' = lastDocs => data' = data
       /\ data' # data => \E docs \in WideSnapshots : Deliver(docs)]_vars

\* the rows are filtered and in another order than the cache, which still
\* holds the records of the last snapshot in the snapshot's order
C28_Witness ==
    /\ Part003
    /\ selectedRamo # S_all
    /\ sortConfig.key # "ramo"
    /\ Len(views.rows) < Len(data)
    /\ \E i, j \in 1..Len(views.rows) :
          i < j /\ CacheIndex(views.rows[i]) > CacheIndex(views.rows[j])
    /\ data = MapDocs(variant, lastDocs)

\* the state of the view: its useState values and what it last rendered
viewState == << data, loading, error, user, selectedRamo, selectedUR, sortConfig,
                rawDoc, debugStatus, views >>

=============================================================================
